---------------------------- MODULE Spec2Model ----------------------------
(***************************************************************************)
(* Model of the Vulkan bootstrap in src/src/state.rs: VulkanState::new     *)
(* (instance, surface, physical device, logical device, debug messenger),  *)
(* VulkanState::destroy, the device-suitability functions and the          *)
(* diagnostics callback.                                                   *)
(*                                                                         *)
(* The native driver is the environment: what it answers to an             *)
(* enumeration and whether a create call succeeds is chosen when the code  *)
(* makes the call and is recorded in the state.  Every native call the     *)
(* code makes is appended to `calls`, in program order.  The create calls  *)
(* and enumerate_physical_devices may fail (their expect panics); the      *)
(* per-device queries are taken to answer.                                 *)
(*                                                                         *)
(* Five specifications share the module:                                   *)
(*   Spec      the life of one VulkanState (new, then destroy);            *)
(*   SpecSuit  find_queue_families / is_physical_device_suitable applied   *)
(*             to one arbitrary physical device;                           *)
(*   SpecCb    vulkan_debug_callback applied to arbitrary messages;        *)
(*   SpecApp   the App of src/src/main.rs: its event handlers and the      *)
(*             loop of main that pumps them;                               *)
(*   SpecPace  the frame pacing of that loop, with the clock as integers.  *)
(***************************************************************************)
EXTENDS Naturals, Sequences, FiniteSets

VARIABLES
    \* ---- Spec: VulkanState::new / destroy
    enable_validation,   \* ENABLE_VALIDATION_LAYERS of this build
    window,              \* the platform of the window handed to new
    pc,                  \* position in new / destroy
    calls,               \* native calls made so far: <<name, device position>>
    live,                \* driver objects created and not yet destroyed
    available_layers,    \* answer of enumerate_instance_layer_properties
    create_info,         \* the vk::InstanceCreateInfo handed to the driver
    physical_devices,    \* answer of enumerate_physical_devices
    physical_device,     \* Option: position of the selected device
    queue_create_infos,  \* the queue-create requests of the device-create call
    graphics_queue,      \* Option: <<family, slot>>
    present_queue,       \* Option: <<family, slot>>
    debug_utils_loader,  \* Option
    debug_messenger,     \* Option
    \* ---- SpecSuit: one device under the suitability functions
    q_pc,
    q_device,
    q_indices,
    q_scanned,
    q_suitable,
    q_calls,
    \* ---- SpecCb: the diagnostics callback (Spec writes the sink too, when
    \*      check_validation_layers reports a missing layer)
    log,                 \* the tracing sink: <<[level, output]>>
    cb_returned,         \* the vk::Bool32 each callback invocation returned
    \* ---- SpecApp: the App of main.rs and its main loop
    app_pc,              \* position in main
    app_window,          \* App::window (Option)
    app_instance,        \* App::instance (Option)
    app_running,         \* App::running
    app_exit,            \* event_loop.exit() was called
    app_events,          \* the events handled so far
    app_calls,           \* create / destroy / cleanup calls made so far
    app_redraw,          \* a redraw was requested and not yet delivered
    app_live,            \* platform and driver objects alive
    \* ---- SpecPace: the frame pacing of main's loop, times in nanoseconds
    p_pc,                \* position in the loop
    p_clock,             \* the monotonic clock Instant::now() reads
    p_now,               \* the local now
    p_timeout,           \* the timeout handed to pump_app_events
    p_next_frame,        \* the local next_frame
    p_last_tick,         \* the local last_tick
    p_dt,                \* Option: the dt handed to the last tick
    p_branch,            \* what the last iteration did with its frame step
    p_iter               \* iterations completed

vars == << enable_validation, window, pc, calls, live, available_layers,
           create_info, physical_devices, physical_device, queue_create_infos,
           graphics_queue, present_queue, debug_utils_loader, debug_messenger,
           q_pc, q_device, q_indices, q_scanned, q_suitable, q_calls,
           log, cb_returned,
           app_pc, app_window, app_instance, app_running, app_exit,
           app_events, app_calls, app_redraw, app_live,
           p_pc, p_clock, p_now, p_timeout, p_next_frame, p_last_tick,
           p_dt, p_branch, p_iter >>

paceVars == << p_pc, p_clock, p_now, p_timeout, p_next_frame, p_last_tick,
               p_dt, p_branch, p_iter >>

appVars == << app_pc, app_window, app_instance, app_running, app_exit,
              app_events, app_calls, app_redraw, app_live >>

bootVars == << enable_validation, window, pc, calls, live, available_layers,
               create_info, physical_devices, physical_device,
               queue_create_infos, graphics_queue, present_queue,
               debug_utils_loader, debug_messenger >>

suitVars == << q_pc, q_device, q_indices, q_scanned, q_suitable, q_calls >>

cbVars == << log, cb_returned >>

(***************************************************************************)
(* Bounds of the model.                                                    *)
(***************************************************************************)
MaxDevices == 3      \* physical devices the driver enumerates (Spec)
MaxLayers == 1       \* instance layers the driver enumerates (Spec)
MaxFamilies == 2     \* queue families of a device (SpecSuit)
MaxExtensions == 2   \* device extensions of a device (SpecSuit)
MaxSwapEntries == 1  \* surface formats / present modes of a device (SpecSuit)
MaxMessages == 1     \* diagnostics messages delivered (SpecCb)
MaxEvents == 4       \* events the event loop delivers (SpecApp)
MaxIterations == 3   \* iterations of the main loop (SpecPace)

(***************************************************************************)
(* Option<T>: None is the empty sequence, Some(x) the one-element one.     *)
(***************************************************************************)
None == << >>
Some(x) == << x >>
is_some(o) == o # None
unwrap(o) == o[1]

RECURSIVE SeqsUpTo(_, _)
SeqsUpTo(S, n) ==
    IF n = 0 THEN { << >> }
    ELSE LET shorter == SeqsUpTo(S, n - 1)
         IN shorter \cup { Append(s, x) : s \in shorter, x \in S }

CallNames(cs) == { cs[k][1] : k \in DOMAIN cs }

(***************************************************************************)
(* Program constants.                                                      *)
(***************************************************************************)
VALIDATION_LAYERS == << "VK_LAYER_KHRONOS_validation" >>
DEVICE_EXTENSIONS == << "VK_KHR_swapchain" >>
EXT_DEBUG_UTILS_NAME == "VK_EXT_debug_utils"

\* vk::DebugUtilsMessageSeverityFlagsEXT bits
SEVERITY_VERBOSE == 1
SEVERITY_INFO == 16
SEVERITY_WARNING == 256
SEVERITY_ERROR == 4096
\* vk::DebugUtilsMessageTypeFlagsEXT bits
TYPE_GENERAL == 1
TYPE_VALIDATION == 2
TYPE_PERFORMANCE == 4
VK_FALSE == 0

RECURSIVE BitAnd(_, _)
BitAnd(a, b) ==
    IF a = 0 \/ b = 0 THEN 0
    ELSE (a % 2) * (b % 2) + 2 * BitAnd(a \div 2, b \div 2)

\* Flags::contains(other): every bit of other is set in flags
contains(flags, other) == BitAnd(flags, other) = other

(***************************************************************************)
(* QueueFamilyIndices                                                      *)
(***************************************************************************)
is_complete_either(indices) ==
    is_some(indices.graphics_family) \/ is_some(indices.present_family)

is_complete(indices) ==
    is_some(indices.graphics_family) /\ is_some(indices.present_family)

(***************************************************************************)
(* find_queue_families: the loop over queue_families.iter().enumerate().   *)
(* i is the 0-based family index; the result also tells how many families  *)
(* the loop visited before it ended.                                       *)
(***************************************************************************)
RECURSIVE scan_queue_families_first_match(_, _, _)
scan_queue_families_first_match(queue_families, i, indices) ==
    IF i >= Len(queue_families)
    THEN [indices |-> indices, scanned |-> i]
    ELSE LET queue_family == queue_families[i + 1]
             with_graphics ==
                 IF "GRAPHICS" \in queue_family.queue_flags
                    /\ ~is_some(indices.graphics_family)
                 THEN [indices EXCEPT !.graphics_family = Some(i)]
                 ELSE indices
             with_present ==
                 IF queue_family.present_support
                    /\ ~is_some(indices.present_family)
                 THEN [with_graphics EXCEPT !.present_family = Some(i)]
                 ELSE with_graphics
         IN IF is_complete(with_present)
            THEN [indices |-> with_present, scanned |-> i + 1]
            ELSE scan_queue_families_first_match(queue_families, i + 1,
                                                 with_present)

RECURSIVE scan_queue_families(_, _, _)
scan_queue_families(queue_families, i, indices) ==
    IF i >= Len(queue_families)
    THEN [indices |-> indices, scanned |-> i]
    ELSE LET queue_family == queue_families[i + 1]
             with_graphics ==
                 IF "GRAPHICS" \in queue_family.queue_flags
                 THEN [indices EXCEPT !.graphics_family = Some(i)]
                 ELSE indices
             with_present ==
                 IF queue_family.present_support
                 THEN [with_graphics EXCEPT !.present_family = Some(i)]
                 ELSE with_graphics
         IN IF is_complete(with_present)
            THEN [indices |-> with_present, scanned |-> i + 1]
            ELSE scan_queue_families(queue_families, i + 1, with_present)

find_queue_families(device) ==
    scan_queue_families(
        device.queue_families, 0,
        [graphics_family |-> None, present_family |-> None]).indices

\* how many families the loop of find_queue_families visits
families_scanned(device) ==
    scan_queue_families(
        device.queue_families, 0,
        [graphics_family |-> None, present_family |-> None]).scanned

\* the native queries find_queue_families makes for the device at position d
find_queue_families_calls(device, d) ==
    << <<"vkGetPhysicalDeviceQueueFamilyProperties", d>> >>
    \o [k \in 1..families_scanned(device) |->
           <<"vkGetPhysicalDeviceSurfaceSupportKHR", d>>]

(***************************************************************************)
(* check_physical_device_extension_support                                 *)
(***************************************************************************)
RECURSIVE all_required_found(_, _, _)
all_required_found(required, k, available) ==
    IF k > Len(required) THEN TRUE
    ELSE LET found == \E a \in DOMAIN available : available[a] = required[k]
         IN IF found = FALSE THEN FALSE
            ELSE all_required_found(required, k + 1, available)

check_physical_device_extension_support(device) ==
    all_required_found(DEVICE_EXTENSIONS, 1, device.extensions)

(***************************************************************************)
(* query_swap_chain_support and is_physical_device_suitable                *)
(***************************************************************************)
query_swap_chain_support(device) ==
    [capabilities |-> "capabilities",
     formats |-> device.formats,
     present_modes |-> device.present_modes]

is_physical_device_suitable_no_completeness(device) ==
    IF check_physical_device_extension_support(device) = FALSE
    THEN FALSE
    ELSE LET swap_chain_details == query_swap_chain_support(device)
         IN swap_chain_details.formats # << >>
            /\ swap_chain_details.present_modes # << >>

is_physical_device_suitable_formats_only(device) ==
    LET indices == find_queue_families(device)
    IN IF is_complete(indices) = FALSE THEN FALSE
       ELSE IF check_physical_device_extension_support(device) = FALSE
            THEN FALSE
            ELSE query_swap_chain_support(device).formats # << >>

is_physical_device_suitable(device) ==
    LET indices == find_queue_families(device)
    IN IF is_complete(indices) = FALSE THEN FALSE
       ELSE IF check_physical_device_extension_support(device) = FALSE
            THEN FALSE
            ELSE LET swap_chain_details == query_swap_chain_support(device)
                 IN swap_chain_details.formats # << >>
                    /\ swap_chain_details.present_modes # << >>

suitability_calls_eager(device, d) ==
    find_queue_families_calls(device, d)
    \o << <<"vkEnumerateDeviceExtensionProperties", d>>,
          <<"vkGetPhysicalDeviceSurfaceCapabilitiesKHR", d>>,
          <<"vkGetPhysicalDeviceSurfaceFormatsKHR", d>>,
          <<"vkGetPhysicalDeviceSurfacePresentModesKHR", d>> >>

\* the native queries is_physical_device_suitable makes for device d
suitability_calls(device, d) ==
    find_queue_families_calls(device, d)
    \o (IF is_complete(find_queue_families(device)) = FALSE
        THEN << >>
        ELSE << <<"vkEnumerateDeviceExtensionProperties", d>> >>
             \o (IF check_physical_device_extension_support(device) = FALSE
                 THEN << >>
                 ELSE << <<"vkGetPhysicalDeviceSurfaceCapabilitiesKHR", d>>,
                         <<"vkGetPhysicalDeviceSurfaceFormatsKHR", d>>,
                         <<"vkGetPhysicalDeviceSurfacePresentModesKHR", d>> >>))

(***************************************************************************)
(* pick_physical_device: the first device of the enumeration that is       *)
(* suitable, by position (1-based); None stands for the panic after the    *)
(* loop.                                                                   *)
(***************************************************************************)
RECURSIVE pick_from(_, _)
pick_from(devices, k) ==
    IF k > Len(devices) THEN None
    ELSE IF is_physical_device_suitable(devices[k]) THEN Some(k)
         ELSE pick_from(devices, k + 1)

pick_physical_device_last_suitable(devices) ==
    LET suitable == { k \in DOMAIN devices :
                          is_physical_device_suitable(devices[k]) }
    IN IF suitable = {} THEN None
       ELSE Some(CHOOSE k \in suitable : \A j \in suitable : j <= k)

pick_physical_device_or_first(devices) ==
    IF is_some(pick_from(devices, 1)) THEN pick_from(devices, 1)
    ELSE IF devices # << >> THEN Some(1) ELSE None

pick_physical_device(devices) == pick_from(devices, 1)

\* the suitability queries pick_physical_device makes, device after device,
\* up to and including the device it returns
RECURSIVE pick_calls_from(_, _)
pick_calls_from(devices, k) ==
    IF k > Len(devices) THEN << >>
    ELSE suitability_calls(devices[k], k)
         \o (IF is_physical_device_suitable(devices[k]) THEN << >>
             ELSE pick_calls_from(devices, k + 1))

pick_physical_device_calls(devices) ==
    << <<"vkEnumeratePhysicalDevices", 0>> >> \o pick_calls_from(devices, 1)

(***************************************************************************)
(* create_logical_device                                                   *)
(***************************************************************************)
\* Vec::dedup: consecutive repeated elements are removed
RECURSIVE dedup(_)
dedup(v) ==
    IF Len(v) <= 1 THEN v
    ELSE IF v[1] = v[2] THEN dedup(Tail(v))
         ELSE << v[1] >> \o dedup(Tail(v))

build_queue_create_infos_no_dedup(graphics_index, present_index) ==
    LET vec == << graphics_index, present_index >>
    IN [k \in 1..Len(vec) |->
           [queue_family_index |-> vec[k], queue_priorities |-> << "1.0" >>]]

\* the DeviceQueueCreateInfo list built from the two family indices
build_queue_create_infos(graphics_index, present_index) ==
    LET vec == dedup(<< graphics_index, present_index >>)
    IN [k \in 1..Len(vec) |->
           [queue_family_index |-> vec[k], queue_priorities |-> << "1.0" >>]]

\* device.get_device_queue(family, 0)
get_device_queue(queue_family_index, queue_index) ==
    << queue_family_index, queue_index >>

(***************************************************************************)
(* create_instance: layers, extensions and the inline diagnostics          *)
(***************************************************************************)
RECURSIVE all_layers_found(_, _, _)
all_layers_found(required, k, available) ==
    IF k > Len(required) THEN TRUE
    ELSE LET found == \E a \in DOMAIN available : available[a] = required[k]
         IN IF ~found THEN FALSE
            ELSE all_layers_found(required, k + 1, available)

\* the required layers the loop of check_validation_layers looks up before
\* it returns: all of them, or those up to the first one that is missing
RECURSIVE layers_looked_up(_, _, _)
layers_looked_up(required, k, available) ==
    IF k > Len(required) THEN << >>
    ELSE LET found == \E a \in DOMAIN available : available[a] = required[k]
         IN IF ~found THEN << required[k] >>
            ELSE << required[k] >> \o layers_looked_up(required, k + 1, available)

\* what check_validation_layers writes to the tracing sink: one error event
\* naming the missing layer when it returns false, nothing otherwise
check_validation_layers_logged(layers) ==
    LET looked == layers_looked_up(VALIDATION_LAYERS, 1, layers)
    IN IF all_layers_found(VALIDATION_LAYERS, 1, layers) THEN << >>
       ELSE << [level |-> "error",
                output |-> << "Validation layer", looked[Len(looked)],
                              "is not supported" >>] >>

check_validation_layers_unchecked(layers) == TRUE

check_validation_layers(layers) ==
    all_layers_found(VALIDATION_LAYERS, 1, layers)

\* ash_window::enumerate_required_extensions for the window's platform
enumerate_required_extensions(w) ==
    IF w = "wayland" THEN << "VK_KHR_surface", "VK_KHR_wayland_surface" >>
    ELSE << "VK_KHR_surface", "VK_KHR_xlib_surface" >>

get_required_extensions_platform_only(w, validation) ==
    enumerate_required_extensions(w)

get_required_extensions(w, validation) ==
    IF validation
    THEN Append(enumerate_required_extensions(w), EXT_DEBUG_UTILS_NAME)
    ELSE enumerate_required_extensions(w)

debug_messenger_create_info_no_verbose ==
    [message_severity |-> SEVERITY_WARNING + SEVERITY_ERROR,
     message_type |-> TYPE_GENERAL + TYPE_VALIDATION + TYPE_PERFORMANCE,
     pfn_user_callback |-> Some("vulkan_debug_callback"),
     user_data |-> None]

debug_messenger_create_info ==
    [message_severity |-> SEVERITY_VERBOSE + SEVERITY_WARNING + SEVERITY_ERROR,
     message_type |-> TYPE_GENERAL + TYPE_VALIDATION + TYPE_PERFORMANCE,
     pfn_user_callback |-> Some("vulkan_debug_callback"),
     user_data |-> None]

\* the messenger object the driver creates from a create info
create_debug_utils_messenger(info) ==
    [handle |-> "messenger", create_info |-> info]

instance_create_info(w, validation) ==
    [enabled_extension_names |-> get_required_extensions(w, validation),
     enabled_layer_names |-> IF validation THEN VALIDATION_LAYERS ELSE << >>,
     p_next |-> IF validation THEN Some(debug_messenger_create_info) ELSE None]

(***************************************************************************)
(* destroy: the native destroy calls, in program order.                    *)
(***************************************************************************)
destroy_calls_creation_order(validation) ==
    << <<"vkDestroyInstance", 0>>, <<"vkDestroySurfaceKHR", 0>>,
       <<"vkDestroyDevice", 0>> >>
    \o (IF validation THEN << <<"vkDestroyDebugUtilsMessengerEXT", 0>> >>
        ELSE << >>)

destroy_calls_no_surface(validation) ==
    << <<"vkDestroyDevice", 0>> >>
    \o (IF validation THEN << <<"vkDestroyDebugUtilsMessengerEXT", 0>> >>
        ELSE << >>)
    \o << <<"vkDestroyInstance", 0>> >>

destroy_calls_messenger_last(validation) ==
    << <<"vkDestroyDevice", 0>>, <<"vkDestroySurfaceKHR", 0>> >>
    \o (IF validation THEN << <<"vkDestroyDebugUtilsMessengerEXT", 0>> >>
        ELSE << >>)
    \o << <<"vkDestroyInstance", 0>> >>

destroy_calls(validation) ==
    << <<"vkDestroyDevice", 0>> >>
    \o (IF validation THEN << <<"vkDestroyDebugUtilsMessengerEXT", 0>> >>
        ELSE << >>)
    \o << <<"vkDestroySurfaceKHR", 0>>, <<"vkDestroyInstance", 0>> >>

\* the driver object a destroy call releases
Released(name) ==
    CASE name = "vkDestroyDevice" -> {"device"}
      [] name = "vkDestroyDebugUtilsMessengerEXT" -> {"messenger"}
      [] name = "vkDestroySurfaceKHR" -> {"surface"}
      [] name = "vkDestroyInstance" -> {"instance"}
      [] OTHER -> {}

(***************************************************************************)
(* vulkan_debug_callback                                                   *)
(***************************************************************************)
callback_level_warning_first(message_severity) ==
    IF contains(message_severity, SEVERITY_WARNING) THEN "warn"
    ELSE IF contains(message_severity, SEVERITY_ERROR) THEN "error"
    ELSE "info"

callback_level(message_severity) ==
    IF contains(message_severity, SEVERITY_ERROR) THEN "error"
    ELSE IF contains(message_severity, SEVERITY_WARNING) THEN "warn"
    ELSE IF contains(message_severity, SEVERITY_INFO) THEN "info"
    ELSE "info"

vulkan_debug_callback(message_severity, message_type, message) ==
    [logged |-> [level |-> callback_level(message_severity),
                 output |-> << "[VULKAN]", message_severity, message_type,
                               message >>],
     result |-> VK_FALSE]

(***************************************************************************)
(* What the driver and the platform may answer.                            *)
(***************************************************************************)
Platforms == { "wayland", "xlib" }

LayerNames == { "VK_LAYER_KHRONOS_validation", "VK_LAYER_MESA_overlay" }
LayerLists == SeqsUpTo(LayerNames, MaxLayers)

QueueFlagSets == { {"TRANSFER"}, {"GRAPHICS", "TRANSFER"} }
QueueFamilies ==
    { [queue_flags |-> f, present_support |-> p] :
          f \in QueueFlagSets, p \in BOOLEAN }
ExtensionNames == { "VK_KHR_swapchain", "VK_KHR_swapchain_mutable_format" }
SurfaceFormats == { "B8G8R8A8_SRGB" }
PresentModes == { "FIFO" }

PhysicalDevice(families, extensions, formats, present_modes) ==
    [queue_families |-> families, extensions |-> extensions,
     formats |-> formats, present_modes |-> present_modes]

\* every physical device within the bounds (SpecSuit)
AllDevices ==
    { PhysicalDevice(f, e, sf, pm) :
          f \in SeqsUpTo(QueueFamilies, MaxFamilies),
          e \in SeqsUpTo(ExtensionNames, MaxExtensions),
          sf \in SeqsUpTo(SurfaceFormats, MaxSwapEntries),
          pm \in SeqsUpTo(PresentModes, MaxSwapEntries) }

\* the devices an enumeration of Spec is made of: one per way of being
\* suitable or of failing a check
FamGP == [queue_flags |-> {"GRAPHICS", "TRANSFER"}, present_support |-> TRUE]
FamG == [queue_flags |-> {"GRAPHICS", "TRANSFER"}, present_support |-> FALSE]
FamP == [queue_flags |-> {"TRANSFER"}, present_support |-> TRUE]
FamT == [queue_flags |-> {"TRANSFER"}, present_support |-> FALSE]

SampleDevices ==
    { \* suitable, one family for graphics and presentation
      PhysicalDevice(<<FamGP>>, <<"VK_KHR_swapchain">>,
                     <<"B8G8R8A8_SRGB">>, <<"FIFO">>),
      \* suitable, graphics and presentation in different families
      PhysicalDevice(<<FamT, FamG, FamP>>,
                     <<"VK_KHR_swapchain_mutable_format", "VK_KHR_swapchain">>,
                     <<"B8G8R8A8_SRGB">>, <<"FIFO">>),
      \* suitable, a graphics-only family before the shared one
      PhysicalDevice(<<FamG, FamGP>>, <<"VK_KHR_swapchain">>,
                     <<"B8G8R8A8_SRGB">>, <<"FIFO">>),
      \* no family presents to the surface
      PhysicalDevice(<<FamG, FamT>>, <<"VK_KHR_swapchain">>,
                     <<"B8G8R8A8_SRGB">>, <<"FIFO">>),
      \* the swapchain extension is missing
      PhysicalDevice(<<FamGP>>, <<"VK_KHR_swapchain_mutable_format">>,
                     <<"B8G8R8A8_SRGB">>, <<"FIFO">>),
      \* no surface format
      PhysicalDevice(<<FamGP>>, <<"VK_KHR_swapchain">>, << >>, <<"FIFO">>),
      \* no present mode
      PhysicalDevice(<<FamGP>>, <<"VK_KHR_swapchain">>,
                     <<"B8G8R8A8_SRGB">>, << >>) }

DeviceLists == SeqsUpTo(SampleDevices, MaxDevices)

NoDevice == PhysicalDevice(<< >>, << >>, << >>, << >>)
NoIndices == [graphics_family |-> None, present_family |-> None]

\* all flag words over the four severity bits and one bit the code does not name
RECURSIVE FlagWords(_)
FlagWords(bits) ==
    IF bits = {} THEN { 0 }
    ELSE LET b == CHOOSE x \in bits : TRUE
             rest == FlagWords(bits \ {b})
         IN rest \cup { w + b : w \in rest }

SeverityWords ==
    FlagWords({ SEVERITY_VERBOSE, SEVERITY_INFO, SEVERITY_WARNING,
                SEVERITY_ERROR, 2 * SEVERITY_ERROR })
TypeWords == FlagWords({ TYPE_GENERAL, TYPE_VALIDATION, TYPE_PERFORMANCE })
Messages == { "vkCreateDevice: invalid queue family" }

(***************************************************************************)
(* Spec: VulkanState::new, stage by stage, then VulkanState::destroy.      *)
(* A panic (panic!, expect, unwrap on None) ends the process.              *)
(***************************************************************************)
SuitIdle ==
    /\ q_pc = "idle"
    /\ q_device = NoDevice
    /\ q_indices = NoIndices
    /\ q_scanned = 0
    /\ q_suitable = FALSE
    /\ q_calls = << >>

CbIdle ==
    /\ log = << >>
    /\ cb_returned = << >>

AppIdle ==
    /\ app_pc = "idle"
    /\ app_window = None
    /\ app_instance = None
    /\ app_running = FALSE
    /\ app_exit = FALSE
    /\ app_events = << >>
    /\ app_calls = << >>
    /\ app_redraw = FALSE
    /\ app_live = {}

PaceIdle ==
    /\ p_pc = "idle"
    /\ p_clock = 0
    /\ p_now = 0
    /\ p_timeout = 0
    /\ p_next_frame = 0
    /\ p_last_tick = 0
    /\ p_dt = None
    /\ p_branch = "none"
    /\ p_iter = 0

BootIdle ==
    /\ enable_validation = FALSE
    /\ window = "wayland"
    /\ pc = "idle"
    /\ calls = << >>
    /\ live = {}
    /\ available_layers = << >>
    /\ create_info = None
    /\ physical_devices = << >>
    /\ physical_device = None
    /\ queue_create_infos = << >>
    /\ graphics_queue = None
    /\ present_queue = None
    /\ debug_utils_loader = None
    /\ debug_messenger = None

Init ==
    /\ enable_validation \in BOOLEAN
    /\ window \in Platforms
    /\ pc = "Uninitialized"
    /\ calls = << >>
    /\ live = {}
    /\ available_layers = << >>
    /\ create_info = None
    /\ physical_devices = << >>
    /\ physical_device = None
    /\ queue_create_infos = << >>
    /\ graphics_queue = None
    /\ present_queue = None
    /\ debug_utils_loader = None
    /\ debug_messenger = None
    /\ SuitIdle
    /\ CbIdle
    /\ AppIdle
    /\ PaceIdle

\* create_instance: the layer check (validation builds only), then the
\* native vkCreateInstance, which may fail (expect)
CreateInstance ==
    /\ pc = "Uninitialized"
    /\ \E layers \in LayerLists, ok \in BOOLEAN :
         IF enable_validation /\ ~check_validation_layers(layers)
         THEN /\ available_layers' = layers
              /\ calls' = Append(calls,
                                 <<"vkEnumerateInstanceLayerProperties", 0>>)
              /\ log' = log \o check_validation_layers_logged(layers)
              /\ pc' = "Panicked"
              /\ UNCHANGED << create_info, live >>
         ELSE /\ available_layers' =
                     IF enable_validation THEN layers ELSE available_layers
              /\ calls' =
                     calls
                     \o (IF enable_validation
                         THEN << <<"vkEnumerateInstanceLayerProperties", 0>> >>
                         ELSE << >>)
                     \o << <<"vkCreateInstance", 0>> >>
              /\ create_info' =
                     Some(instance_create_info(window, enable_validation))
              /\ log' = IF enable_validation
                         THEN log \o check_validation_layers_logged(layers)
                         ELSE log
              /\ live' = IF ok THEN live \cup {"instance"} ELSE live
              /\ pc' = IF ok THEN "InstanceCreated" ELSE "Panicked"
    /\ UNCHANGED << enable_validation, window, physical_devices,
                    physical_device, queue_create_infos, graphics_queue,
                    present_queue, debug_utils_loader, debug_messenger >>
    /\ UNCHANGED << suitVars, cb_returned, appVars, paceVars >>

\* create_surface: ash_window::create_surface, which may fail (expect)
CreateSurface ==
    /\ pc = "InstanceCreated"
    /\ \E ok \in BOOLEAN :
         /\ calls' = Append(calls, <<"vkCreateSurfaceKHR", 0>>)
         /\ live' = IF ok THEN live \cup {"surface"} ELSE live
         /\ pc' = IF ok THEN "SurfaceAttached" ELSE "Panicked"
    /\ UNCHANGED << enable_validation, window, available_layers, create_info,
                    physical_devices, physical_device, queue_create_infos,
                    graphics_queue, present_queue, debug_utils_loader,
                    debug_messenger >>
    /\ UNCHANGED << suitVars, cbVars, appVars, paceVars >>

\* pick_physical_device: the enumeration (which may fail), then the loop
PickPhysicalDeviceAt(stage) ==
    /\ pc = stage
    /\ \E devices \in DeviceLists, ok \in BOOLEAN :
         IF ~ok
         THEN /\ calls' = Append(calls, <<"vkEnumeratePhysicalDevices", 0>>)
              /\ pc' = "Panicked"
              /\ UNCHANGED << physical_devices, physical_device >>
         ELSE /\ physical_devices' = devices
              /\ calls' = calls \o pick_physical_device_calls(devices)
              /\ physical_device' = pick_physical_device(devices)
              /\ pc' = IF is_some(pick_physical_device(devices))
                       THEN "PhysicalDeviceSelected"
                       ELSE "Panicked"
    /\ UNCHANGED << enable_validation, window, live, available_layers,
                    create_info, queue_create_infos, graphics_queue,
                    present_queue, debug_utils_loader, debug_messenger >>
    /\ UNCHANGED << suitVars, cbVars, appVars, paceVars >>

PickPhysicalDevice_with_rollback ==
    \/ /\ PickPhysicalDeviceAt("SurfaceAttached")
       /\ pc' # "Panicked"
    \/ /\ pc = "SurfaceAttached"
       /\ calls' = calls \o << <<"vkEnumeratePhysicalDevices", 0>>,
                               <<"vkDestroySurfaceKHR", 0>>,
                               <<"vkDestroyInstance", 0>> >>
       /\ live' = {}
       /\ pc' = "Panicked"
       /\ UNCHANGED << enable_validation, window, available_layers,
                       create_info, physical_devices, physical_device,
                       queue_create_infos, graphics_queue, present_queue,
                       debug_utils_loader, debug_messenger >>
       /\ UNCHANGED << suitVars, cbVars, appVars, paceVars >>

PickPhysicalDevice_before_surface == PickPhysicalDeviceAt("InstanceCreated")

\* new calls pick_physical_device with the surface create_surface returned
PickPhysicalDevice == PickPhysicalDeviceAt("SurfaceAttached")

\* create_logical_device: the indices are found again, unwrapped, and the
\* device is created (which may fail) with its queues fetched at slot 0
CreateLogicalDevice ==
    /\ pc = "PhysicalDeviceSelected"
    /\ LET d == unwrap(physical_device)
           device == physical_devices[d]
           indicies == find_queue_families(device)
           queried == calls \o find_queue_families_calls(device, d)
       IN IF ~is_some(indicies.graphics_family)
             \/ ~is_some(indicies.present_family)
          THEN /\ calls' = queried
               /\ pc' = "Panicked"
               /\ UNCHANGED << live, queue_create_infos, graphics_queue,
                               present_queue >>
          ELSE LET graphics_index == unwrap(indicies.graphics_family)
                   present_index == unwrap(indicies.present_family)
               IN \E ok \in BOOLEAN :
                    /\ queue_create_infos' =
                           build_queue_create_infos(graphics_index,
                                                    present_index)
                    /\ IF ok
                       THEN /\ calls' = queried
                                    \o << <<"vkCreateDevice", d>>,
                                          <<"vkGetDeviceQueue", d>>,
                                          <<"vkGetDeviceQueue", d>> >>
                            /\ live' = live \cup {"device"}
                            /\ graphics_queue' =
                                   Some(get_device_queue(graphics_index, 0))
                            /\ present_queue' =
                                   Some(get_device_queue(present_index, 0))
                            /\ pc' = "LogicalDeviceReady"
                       ELSE /\ calls' = Append(queried, <<"vkCreateDevice", d>>)
                            /\ pc' = "Panicked"
                            /\ UNCHANGED << live, graphics_queue,
                                            present_queue >>
    /\ UNCHANGED << enable_validation, window, available_layers, create_info,
                    physical_devices, physical_device, debug_utils_loader,
                    debug_messenger >>
    /\ UNCHANGED << suitVars, cbVars, appVars, paceVars >>

\* setup_debug_messenger, called by new in validation builds only
SetupDebugMessengerAt(stage) ==
    /\ pc = stage
    /\ enable_validation
    /\ \E ok \in BOOLEAN :
         /\ calls' = Append(calls, <<"vkCreateDebugUtilsMessengerEXT", 0>>)
         /\ live' = IF ok THEN live \cup {"messenger"} ELSE live
         /\ debug_utils_loader' =
                IF ok THEN Some("debug_utils_loader") ELSE debug_utils_loader
         /\ debug_messenger' =
                IF ok
                THEN Some(create_debug_utils_messenger(
                              debug_messenger_create_info))
                ELSE debug_messenger
         /\ pc' = IF ok THEN "MessengerCreated" ELSE "Panicked"
    /\ UNCHANGED << enable_validation, window, available_layers, create_info,
                    physical_devices, physical_device, queue_create_infos,
                    graphics_queue, present_queue >>
    /\ UNCHANGED << suitVars, cbVars, appVars, paceVars >>

SetupDebugMessenger_after_instance == SetupDebugMessengerAt("InstanceCreated")

\* new calls setup_debug_messenger on the struct built after
\* create_logical_device
SetupDebugMessenger == SetupDebugMessengerAt("LogicalDeviceReady")

\* return ret
Return ==
    /\ pc = IF enable_validation THEN "MessengerCreated"
            ELSE "LogicalDeviceReady"
    /\ pc' = "Returned"
    /\ UNCHANGED << enable_validation, window, calls, live, available_layers,
                    create_info, physical_devices, physical_device,
                    queue_create_infos, graphics_queue, present_queue,
                    debug_utils_loader, debug_messenger >>
    /\ UNCHANGED << suitVars, cbVars, appVars, paceVars >>

RECURSIVE ReleasedBy(_)
ReleasedBy(cs) ==
    IF cs = << >> THEN {}
    ELSE Released(cs[1][1]) \cup ReleasedBy(Tail(cs))

\* destroy(self): consumes the returned context
Destroy ==
    /\ pc = "Returned"
    /\ IF enable_validation
          /\ (~is_some(debug_utils_loader) \/ ~is_some(debug_messenger))
       THEN \* unwrap on None, after the device was destroyed
            /\ calls' = Append(calls, <<"vkDestroyDevice", 0>>)
            /\ live' = live \ {"device"}
            /\ pc' = "Panicked"
       ELSE /\ calls' = calls \o destroy_calls(enable_validation)
            /\ live' = live \ ReleasedBy(destroy_calls(enable_validation))
            /\ pc' = "Destroyed"
    /\ UNCHANGED << enable_validation, window, available_layers, create_info,
                    physical_devices, physical_device, queue_create_infos,
                    graphics_queue, present_queue, debug_utils_loader,
                    debug_messenger >>
    /\ UNCHANGED << suitVars, cbVars, appVars, paceVars >>

Next ==
    \/ CreateInstance
    \/ CreateSurface
    \/ PickPhysicalDevice
    \/ CreateLogicalDevice
    \/ SetupDebugMessenger
    \/ Return
    \/ Destroy

Spec == Init /\ [][Next]_vars

(***************************************************************************)
(* SpecSuit: the suitability functions applied to one physical device.     *)
(***************************************************************************)
InitSuit ==
    /\ BootIdle
    /\ CbIdle
    /\ AppIdle
    /\ PaceIdle
    /\ q_pc = "input"
    /\ q_device \in AllDevices
    /\ q_indices = NoIndices
    /\ q_scanned = 0
    /\ q_suitable = FALSE
    /\ q_calls = << >>

FindQueueFamilies ==
    /\ q_pc = "input"
    /\ q_indices' = find_queue_families(q_device)
    /\ q_scanned' = families_scanned(q_device)
    /\ q_calls' = find_queue_families_calls(q_device, 1)
    /\ q_pc' = "found"
    /\ UNCHANGED << q_device, q_suitable >>
    /\ UNCHANGED << bootVars, cbVars, appVars, paceVars >>

IsPhysicalDeviceSuitable ==
    /\ q_pc = "input"
    /\ q_suitable' = is_physical_device_suitable(q_device)
    /\ q_calls' = suitability_calls(q_device, 1)
    /\ q_pc' = "checked"
    /\ UNCHANGED << q_device, q_indices, q_scanned >>
    /\ UNCHANGED << bootVars, cbVars, appVars, paceVars >>

NextSuit ==
    \/ FindQueueFamilies
    \/ IsPhysicalDeviceSuitable

SpecSuit == InitSuit /\ [][NextSuit]_vars

(***************************************************************************)
(* SpecCb: the driver delivers diagnostics messages to the callback.       *)
(***************************************************************************)
InitCb ==
    /\ BootIdle
    /\ SuitIdle
    /\ AppIdle
    /\ PaceIdle
    /\ log = << >>
    /\ cb_returned = << >>

DebugCallback ==
    /\ Len(log) < MaxMessages
    /\ \E severity \in SeverityWords, type \in TypeWords, message \in Messages :
         LET r == vulkan_debug_callback(severity, type, message)
         IN /\ log' = Append(log, r.logged)
            /\ cb_returned' = Append(cb_returned, r.result)
    /\ UNCHANGED << bootVars, suitVars, appVars, paceVars >>

NextCb == DebugCallback

SpecCb == InitCb /\ [][NextCb]_vars

(***************************************************************************)
(* Properties                                                              *)
(***************************************************************************)
Names(cs) == [k \in DOMAIN cs |-> cs[k][1]]
IsDestroyCall(c) ==
    c[1] \in { "vkDestroyDevice", "vkDestroyDebugUtilsMessengerEXT",
               "vkDestroySurfaceKHR", "vkDestroyInstance" }
IsStageCall(c) ==
    c[1] \in { "vkCreateInstance", "vkCreateSurfaceKHR",
               "vkEnumeratePhysicalDevices", "vkCreateDevice" }
IsSuitabilityQuery(c) ==
    c[1] \in { "vkGetPhysicalDeviceQueueFamilyProperties",
               "vkGetPhysicalDeviceSurfaceSupportKHR",
               "vkEnumerateDeviceExtensionProperties",
               "vkGetPhysicalDeviceSurfaceCapabilitiesKHR",
               "vkGetPhysicalDeviceSurfaceFormatsKHR",
               "vkGetPhysicalDeviceSurfacePresentModesKHR" }
IsPrefix(a, b) == Len(a) <= Len(b) /\ \A k \in DOMAIN a : a[k] = b[k]
Called(name) == name \in CallNames(calls)
AfterLogicalDevice ==
    pc \in { "LogicalDeviceReady", "MessengerCreated", "Returned", "Destroyed" }
Suitable(k) == is_physical_device_suitable(physical_devices[k])

C1_ExpectedTeardown ==
    << "vkDestroyDevice" >>
    \o (IF is_some(debug_messenger)
        THEN << "vkDestroyDebugUtilsMessengerEXT" >> ELSE << >>)
    \o << "vkDestroySurfaceKHR", "vkDestroyInstance" >>
\* C1: the destroy calls destroy issues are, in this order, logical device,
\* debug messenger (exactly when one was created), surface, instance, in
\* the validation build and in the other; the destroy calls issued at any
\* point are a prefix of that order.
C1_TeardownOrder ==
    LET issued == Names(SelectSeq(calls, IsDestroyCall))
    IN /\ IsPrefix(issued, C1_ExpectedTeardown)
       /\ pc = "Destroyed" => issued = C1_ExpectedTeardown
       /\ pc # "Destroyed" => issued = << >>
C1_Witness ==
    /\ pc = "Destroyed"
    /\ enable_validation
    /\ Names(SelectSeq(calls, IsDestroyCall)) =
           << "vkDestroyDevice", "vkDestroyDebugUtilsMessengerEXT",
              "vkDestroySurfaceKHR", "vkDestroyInstance" >>

\* C2: the device pick_physical_device returns is suitable and no device
\* at a smaller enumeration position is; whenever the enumeration holds a
\* suitable device, one is returned.
C2_FirstSuitablePicked ==
    /\ is_some(physical_device) =>
           LET k == unwrap(physical_device)
           IN /\ k \in DOMAIN physical_devices
              /\ Suitable(k)
              /\ \A j \in 1..(k - 1) : ~Suitable(j)
    /\ (\E j \in DOMAIN physical_devices : Suitable(j)) =>
           is_some(physical_device)
C2_Witness ==
    /\ physical_device = Some(2)
    /\ Len(physical_devices) = 3
    /\ ~Suitable(1)
    /\ Suitable(3)

C3_Complete ==
    LET indices == find_queue_families(q_device)
    IN indices.graphics_family # None /\ indices.present_family # None
C3_ExtensionsPresent ==
    \A r \in DOMAIN DEVICE_EXTENSIONS :
        \E a \in DOMAIN q_device.extensions :
            q_device.extensions[a] = DEVICE_EXTENSIONS[r]
\* C3: is_physical_device_suitable returns true exactly when the indices
\* found are complete, every DEVICE_EXTENSIONS name is in the device's
\* extension list, and the format list and the present-mode list both have
\* at least one entry.
C3_SuitableIff ==
    q_pc = "checked" =>
        (q_suitable <=> /\ C3_Complete
                        /\ C3_ExtensionsPresent
                        /\ Len(q_device.formats) >= 1
                        /\ Len(q_device.present_modes) >= 1)
C3_Witness ==
    /\ q_pc = "checked"
    /\ ~q_suitable
    /\ C3_Complete
    /\ C3_ExtensionsPresent
    /\ Len(q_device.formats) >= 1
    /\ q_device.present_modes = << >>

C4_Indices == find_queue_families(physical_devices[unwrap(physical_device)])
\* C4: the device-create call carries one queue-create request per
\* distinct family index (one when graphics and present family are equal,
\* two otherwise, never the same family twice), and both queues are
\* fetched at slot 0 of their family, so equal indices give the same queue.
C4_QueueRequests ==
    /\ queue_create_infos # << >> =>
           LET g == unwrap(C4_Indices.graphics_family)
               p == unwrap(C4_Indices.present_family)
               requested == { queue_create_infos[k].queue_family_index :
                                  k \in DOMAIN queue_create_infos }
           IN /\ requested = { g, p }
              /\ Len(queue_create_infos) = (IF g = p THEN 1 ELSE 2)
              /\ \A a, b \in DOMAIN queue_create_infos :
                     a # b => queue_create_infos[a].queue_family_index
                              # queue_create_infos[b].queue_family_index
    /\ AfterLogicalDevice =>
           LET g == unwrap(C4_Indices.graphics_family)
               p == unwrap(C4_Indices.present_family)
           IN /\ queue_create_infos # << >>
              /\ graphics_queue = Some(<< g, 0 >>)
              /\ present_queue = Some(<< p, 0 >>)
              /\ (g = p => graphics_queue = present_queue)
C4_Witness ==
    /\ pc = "LogicalDeviceReady"
    /\ C4_Indices.graphics_family = C4_Indices.present_family
    /\ Len(physical_devices[unwrap(physical_device)].queue_families) >= 2
    /\ Len(queue_create_infos) = 1
    /\ graphics_queue = present_queue

\* C5: is_complete is true exactly when both indices are set, and the
\* indices find_queue_families returns are complete for every family list
\* with a graphics-capable family and a family presenting to the surface.
C5_CompleteWhenBothExist ==
    q_pc = "found" =>
        /\ is_complete(q_indices) <=>
               (q_indices.graphics_family # None
                /\ q_indices.present_family # None)
        /\ ((\E a \in DOMAIN q_device.queue_families :
                 "GRAPHICS" \in q_device.queue_families[a].queue_flags)
            /\ (\E b \in DOMAIN q_device.queue_families :
                    q_device.queue_families[b].present_support))
           => is_complete(q_indices)
C5_Witness ==
    /\ q_pc = "found"
    /\ Len(q_device.queue_families) = 2
    /\ "GRAPHICS" \in q_device.queue_families[1].queue_flags
    /\ ~q_device.queue_families[1].present_support
    /\ "GRAPHICS" \notin q_device.queue_families[2].queue_flags
    /\ q_device.queue_families[2].present_support
    /\ q_indices.graphics_family = Some(0)
    /\ q_indices.present_family = Some(1)

C6_LayerMissing ==
    /\ enable_validation
    /\ Called("vkEnumerateInstanceLayerProperties")
    /\ \E r \in DOMAIN VALIDATION_LAYERS :
           \A a \in DOMAIN available_layers :
               available_layers[a] # VALIDATION_LAYERS[r]
\* C6: in a validation build, once the driver's layer enumeration lacks a
\* VALIDATION_LAYERS name, the process has panicked, vkCreateInstance was
\* never called and no instance, surface, device or messenger exists.
C6_MissingLayerIsFatal ==
    C6_LayerMissing =>
        /\ pc = "Panicked"
        /\ ~Called("vkCreateInstance")
        /\ ~Called("vkCreateSurfaceKHR")
        /\ ~Called("vkCreateDevice")
        /\ ~Called("vkCreateDebugUtilsMessengerEXT")
        /\ create_info = None
        /\ live = {}
        /\ debug_messenger = None
C6_Witness ==
    /\ C6_LayerMissing
    /\ available_layers = << "VK_LAYER_MESA_overlay" >>
    /\ pc = "Panicked"

C7_StageStep ==
    \/ pc' = pc
    \/ pc' = "Panicked" /\ pc \notin { "Destroyed", "Panicked" }
    \/ << pc, pc' >> \in
           { << "Uninitialized", "InstanceCreated" >>,
             << "InstanceCreated", "SurfaceAttached" >>,
             << "SurfaceAttached", "PhysicalDeviceSelected" >>,
             << "PhysicalDeviceSelected", "LogicalDeviceReady" >>,
             << "LogicalDeviceReady", "MessengerCreated" >>,
             << "LogicalDeviceReady", "Returned" >>,
             << "MessengerCreated", "Returned" >>,
             << "Returned", "Destroyed" >> }
C7_StageCalls ==
    /\ IsPrefix(Names(SelectSeq(calls, IsStageCall)),
                << "vkCreateInstance", "vkCreateSurfaceKHR",
                   "vkEnumeratePhysicalDevices", "vkCreateDevice" >>)
    /\ AfterLogicalDevice =>
           Names(SelectSeq(calls, IsStageCall)) =
               << "vkCreateInstance", "vkCreateSurfaceKHR",
                  "vkEnumeratePhysicalDevices", "vkCreateDevice" >>
C7_SurfaceBeforeSuitability ==
    \A k \in DOMAIN calls :
        IsSuitabilityQuery(calls[k]) =>
            /\ \E j \in 1..(k - 1) : calls[j][1] = "vkCreateSurfaceKHR"
            /\ "surface" \in live \/ pc = "Destroyed"
\* C7: new moves through instance created, surface created, physical
\* device selected, logical device created one stage at a time in that
\* order, each stage call made once; no suitability query is made before
\* the surface was created; once destroyed, the context stays destroyed.
C7_SingleShotStages ==
    /\ [][C7_StageStep]_vars
    /\ [](C7_StageCalls /\ C7_SurfaceBeforeSuitability)
    /\ [][pc = "Destroyed" => pc' = "Destroyed"]_vars
C7_Witness ==
    /\ pc = "Destroyed"
    /\ \E k \in DOMAIN calls : IsSuitabilityQuery(calls[k])
    /\ Names(SelectSeq(calls, IsStageCall)) =
           << "vkCreateInstance", "vkCreateSurfaceKHR",
              "vkEnumeratePhysicalDevices", "vkCreateDevice" >>

C8_DebugUtilsRequested ==
    \E k \in DOMAIN unwrap(create_info).enabled_extension_names :
        unwrap(create_info).enabled_extension_names[k] = "VK_EXT_debug_utils"
\* C8: in a VulkanState that new returned, the messenger and its loader
\* are both set exactly when validation is enabled and the debug-utils
\* extension was among the extensions of the instance-create call; without
\* validation the extension, the layers and the messenger are all absent.
C8_MessengerIffValidation ==
    pc = "Returned" =>
        /\ (debug_messenger # None /\ debug_utils_loader # None)
               <=> (enable_validation /\ C8_DebugUtilsRequested)
        /\ (debug_messenger # None) <=> (debug_utils_loader # None)
        /\ (debug_messenger # None) <=> ("messenger" \in live)
        /\ ~enable_validation =>
               /\ ~C8_DebugUtilsRequested
               /\ unwrap(create_info).enabled_layer_names = << >>
               /\ debug_messenger = None
               /\ debug_utils_loader = None
               /\ ~Called("vkCreateDebugUtilsMessengerEXT")
C8_Witness ==
    /\ pc = "Returned"
    /\ enable_validation
    /\ C8_DebugUtilsRequested
    /\ debug_messenger # None
    /\ debug_utils_loader # None

C9_NoSuitableDevice ==
    /\ Called("vkEnumeratePhysicalDevices")
    /\ \A k \in DOMAIN physical_devices : ~Suitable(k)
\* C9: once the enumeration was asked for and holds no suitable device
\* (or no device at all), the process has panicked, no physical device is
\* selected, vkCreateDevice was never called and no logical device exists.
C9_NoSuitableDeviceIsFatal ==
    C9_NoSuitableDevice =>
        /\ pc = "Panicked"
        /\ physical_device = None
        /\ ~Called("vkCreateDevice")
        /\ "device" \notin live
        /\ queue_create_infos = << >>
        /\ graphics_queue = None
        /\ present_queue = None
C9_Witness ==
    /\ C9_NoSuitableDevice
    /\ Len(physical_devices) >= 2
    /\ pc = "Panicked"

C10_BitSet(word, bit) == (word \div bit) % 2 = 1
\* C10: every message delivered to the callback is logged at error when
\* the ERROR bit of its severity is set, else at warn when the WARNING bit
\* is set, else at info, and the callback returns FALSE every time.
C10_CallbackLevels ==
    /\ Len(cb_returned) = Len(log)
    /\ \A k \in DOMAIN log :
           LET severity == log[k].output[2]
           IN /\ log[k].level =
                     (IF C10_BitSet(severity, 4096) THEN "error"
                      ELSE IF C10_BitSet(severity, 256) THEN "warn"
                      ELSE "info")
              /\ cb_returned[k] = 0
C10_Witness ==
    /\ Len(log) >= 1
    /\ C10_BitSet(log[1].output[2], 4096)
    /\ C10_BitSet(log[1].output[2], 256)
    /\ log[1].level = "error"
    /\ cb_returned[1] = 0

(***************************************************************************)
(* C11: which indices find_queue_families returns                          *)
(***************************************************************************)
\* 0-based indices of the families of q_device with graphics capability,
\* and of those presenting to the surface
C11_Graphics ==
    { i \in 0..(Len(q_device.queue_families) - 1) :
          "GRAPHICS" \in q_device.queue_families[i + 1].queue_flags }
C11_Present ==
    { i \in 0..(Len(q_device.queue_families) - 1) :
          q_device.queue_families[i + 1].present_support }
C11_Min(S) == CHOOSE m \in S : \A x \in S : m <= x
C11_Max(S) == CHOOSE m \in S : \A x \in S : x <= m
C11_OptMin(S) == IF S = {} THEN None ELSE Some(C11_Min(S))
C11_OptMax(S) == IF S = {} THEN None ELSE Some(C11_Max(S))
\* the families visited: through the first index by which a graphics
\* family and a presenting family have both been seen, else all of them
C11_Visited ==
    IF C11_Graphics # {} /\ C11_Present # {}
    THEN LET g == C11_Min(C11_Graphics)
             p == C11_Min(C11_Present)
         IN (IF g >= p THEN g ELSE p) + 1
    ELSE Len(q_device.queue_families)

\* C11 as stated: graphics_family is the smallest graphics-capable index,
\* present_family the smallest presenting index, and the scan stops at the
\* first index at which both are set.
C11_SmallestIndices ==
    q_pc = "found" =>
        /\ q_indices.graphics_family = C11_OptMin(C11_Graphics)
        /\ q_indices.present_family = C11_OptMin(C11_Present)
        /\ q_scanned = C11_Visited

\* C11 as amended: the scan stops at the first index by which both kinds
\* of family have been seen (or at the end of the list), and each index
\* returned is the largest matching index among the families visited: a
\* later match before the stop overwrites an earlier one.
C11_LastMatchBeforeStop ==
    q_pc = "found" =>
        /\ q_scanned = C11_Visited
        /\ q_indices.graphics_family =
               C11_OptMax({ i \in C11_Graphics : i < C11_Visited })
        /\ q_indices.present_family =
               C11_OptMax({ i \in C11_Present : i < C11_Visited })
C11_Witness ==
    /\ q_pc = "found"
    /\ C11_Graphics = { 0, 1 }
    /\ C11_Present = { 1 }
    /\ q_scanned = 2
    /\ q_indices.graphics_family = Some(1)
    /\ q_indices.present_family = Some(1)

(***************************************************************************)
(* C12: when new creates the debug messenger                               *)
(***************************************************************************)
\* position in calls of the first call of that name
C12_Pos(name) ==
    CHOOSE k \in DOMAIN calls :
        /\ calls[k][1] = name
        /\ \A j \in 1..(k - 1) : calls[j][1] # name
C12_LaterStageCalls ==
    { "vkCreateSurfaceKHR", "vkEnumeratePhysicalDevices", "vkCreateDevice" }

\* C12 as stated: in a validation build the messenger-creation call comes
\* right after instance creation, before surface creation, physical-device
\* selection and logical-device creation.
C12_MessengerRightAfterInstance ==
    enable_validation =>
        \A name \in C12_LaterStageCalls :
            Called(name) =>
                /\ Called("vkCreateDebugUtilsMessengerEXT")
                /\ C12_Pos("vkCreateDebugUtilsMessengerEXT") < C12_Pos(name)

\* C12 as amended: in a validation build the messenger-creation call is
\* the last native call of new: it follows instance creation, surface
\* creation, physical-device selection and logical-device creation, and
\* every context new returns has made it.
C12_MessengerCreatedLast ==
    /\ Called("vkCreateDebugUtilsMessengerEXT") =>
           /\ enable_validation
           /\ Called("vkCreateInstance")
           /\ C12_Pos("vkCreateInstance")
                  < C12_Pos("vkCreateDebugUtilsMessengerEXT")
           /\ \A name \in C12_LaterStageCalls :
                  /\ Called(name)
                  /\ C12_Pos(name) < C12_Pos("vkCreateDebugUtilsMessengerEXT")
           /\ \A k \in DOMAIN calls :
                  k > C12_Pos("vkCreateDebugUtilsMessengerEXT")
                      => IsDestroyCall(calls[k])
    /\ (pc = "Returned" /\ enable_validation) =>
           calls[Len(calls)][1] = "vkCreateDebugUtilsMessengerEXT"
C12_Witness ==
    /\ pc = "Returned"
    /\ enable_validation
    /\ calls[Len(calls)][1] = "vkCreateDebugUtilsMessengerEXT"
    /\ C12_Pos("vkCreateDevice") < C12_Pos("vkCreateDebugUtilsMessengerEXT")

(***************************************************************************)
(* C13: destruction order against creation order                           *)
(***************************************************************************)
C13_CreateCall(obj) ==
    CASE obj = "instance" -> "vkCreateInstance"
      [] obj = "surface" -> "vkCreateSurfaceKHR"
      [] obj = "device" -> "vkCreateDevice"
      [] obj = "messenger" -> "vkCreateDebugUtilsMessengerEXT"
C13_DestroyCall(obj) ==
    CASE obj = "instance" -> "vkDestroyInstance"
      [] obj = "surface" -> "vkDestroySurfaceKHR"
      [] obj = "device" -> "vkDestroyDevice"
      [] obj = "messenger" -> "vkDestroyDebugUtilsMessengerEXT"
C13_Owned ==
    { obj \in { "instance", "surface", "device", "messenger" } :
          Called(C13_CreateCall(obj)) }
C13_CreatedBefore(a, b) ==
    C12_Pos(C13_CreateCall(a)) < C12_Pos(C13_CreateCall(b))
C13_DestroyedBefore(a, b) ==
    /\ Called(C13_DestroyCall(a))
    /\ Called(C13_DestroyCall(b))
    /\ C12_Pos(C13_DestroyCall(a)) < C12_Pos(C13_DestroyCall(b))

\* C13 as stated: of any two owned resources, the one created later is
\* destroyed earlier.
C13_StrictReverseCreation ==
    pc = "Destroyed" =>
        \A a, b \in C13_Owned :
            C13_CreatedBefore(a, b) => C13_DestroyedBefore(b, a)

\* C13 as amended: instance, surface and logical device are destroyed in
\* strict reverse order of their creation; the debug messenger, created
\* last, is destroyed after the logical device and before the surface and
\* the instance.
C13_ReverseExceptMessenger ==
    pc = "Destroyed" =>
        /\ \A a, b \in C13_Owned \ { "messenger" } :
               C13_CreatedBefore(a, b) => C13_DestroyedBefore(b, a)
        /\ { "instance", "surface", "device" } \subseteq C13_Owned
        /\ C13_CreatedBefore("instance", "surface")
        /\ C13_CreatedBefore("surface", "device")
        /\ "messenger" \in C13_Owned =>
               /\ \A a \in C13_Owned \ { "messenger" } :
                      C13_CreatedBefore(a, "messenger")
               /\ C13_DestroyedBefore("device", "messenger")
               /\ C13_DestroyedBefore("messenger", "surface")
               /\ C13_DestroyedBefore("messenger", "instance")
C13_Witness ==
    /\ pc = "Destroyed"
    /\ "messenger" \in C13_Owned
    /\ C13_CreatedBefore("device", "messenger")
    /\ C13_DestroyedBefore("device", "messenger")

(***************************************************************************)
(* C14: the diagnostics configuration                                      *)
(***************************************************************************)
\* the configurations handed to the driver so far: inline on the
\* instance-create request, and for the separate messenger
C14_Configurations ==
    (IF create_info # None /\ unwrap(create_info).p_next # None
     THEN { unwrap(unwrap(create_info).p_next) } ELSE {})
    \cup (IF debug_messenger # None
          THEN { unwrap(debug_messenger).create_info } ELSE {})
C14_Attachment ==
    /\ create_info # None =>
           (unwrap(create_info).p_next # None <=> enable_validation)
    /\ debug_messenger # None => enable_validation
C14_TypesAndCallback(c) ==
    /\ C10_BitSet(c.message_type, 1)
    /\ C10_BitSet(c.message_type, 2)
    /\ C10_BitSet(c.message_type, 4)
    /\ c.message_type < 8
    /\ c.pfn_user_callback = Some("vulkan_debug_callback")

\* C14 as stated: the configuration, inline (attached iff validation is
\* enabled) and for the messenger, has severity mask exactly {verbose,
\* info, warning, error}, category mask exactly {general, validation,
\* performance} and vulkan_debug_callback as callback.
C14_AllFourSeverities ==
    /\ C14_Attachment
    /\ \A c \in C14_Configurations :
           /\ C10_BitSet(c.message_severity, 1)
           /\ C10_BitSet(c.message_severity, 16)
           /\ C10_BitSet(c.message_severity, 256)
           /\ C10_BitSet(c.message_severity, 4096)
           /\ c.message_severity < 8192
           /\ C14_TypesAndCallback(c)

\* C14 as amended: the severity mask is exactly {verbose, warning, error}
\* (info is not in it); the rest is as stated.
C14_SeveritiesWithoutInfo ==
    /\ C14_Attachment
    /\ \A c \in C14_Configurations :
           /\ C10_BitSet(c.message_severity, 1)
           /\ ~C10_BitSet(c.message_severity, 16)
           /\ C10_BitSet(c.message_severity, 256)
           /\ C10_BitSet(c.message_severity, 4096)
           /\ c.message_severity < 8192
           /\ C14_TypesAndCallback(c)
C14_Witness ==
    /\ pc = "MessengerCreated"
    /\ Cardinality(C14_Configurations) = 1
    /\ unwrap(create_info).p_next # None
    /\ \A c \in C14_Configurations : c.message_severity = 4353

(***************************************************************************)
(* C15: the order of the suitability checks and their short circuit        *)
(***************************************************************************)
C15_Queried(name) == name \in CallNames(q_calls)
C15_Count(name) ==
    Cardinality({ k \in DOMAIN q_calls : q_calls[k][1] = name })
C15_SwapchainQueries ==
    << "vkGetPhysicalDeviceSurfaceCapabilitiesKHR",
       "vkGetPhysicalDeviceSurfaceFormatsKHR",
       "vkGetPhysicalDeviceSurfacePresentModesKHR" >>
C15_FamilyQueries ==
    { "vkGetPhysicalDeviceQueueFamilyProperties",
      "vkGetPhysicalDeviceSurfaceSupportKHR" }
\* the calls of q_calls that are not queue-family queries, in order
C15_LaterCalls ==
    Names(SelectSeq(q_calls, LAMBDA c : c[1] \notin C15_FamilyQueries))

\* C15: the device's extensions are enumerated exactly when its indices
\* are complete, and its swapchain support (capabilities, formats, present
\* modes) is queried exactly when it also passed the extension check; the
\* queries come in the order queue families, extensions, swapchain.
C15_ShortCircuitOrder ==
    q_pc = "checked" =>
        /\ C15_Queried("vkGetPhysicalDeviceQueueFamilyProperties")
        /\ C15_Queried("vkEnumerateDeviceExtensionProperties") <=> C3_Complete
        /\ \A s \in DOMAIN C15_SwapchainQueries :
               C15_Queried(C15_SwapchainQueries[s])
                   <=> (C3_Complete /\ C3_ExtensionsPresent)
        /\ \A k \in DOMAIN q_calls :
               q_calls[k][1] \in C15_FamilyQueries =>
                   \A j \in 1..(k - 1) : q_calls[j][1] \in C15_FamilyQueries
        /\ IsPrefix(C15_LaterCalls,
                    << "vkEnumerateDeviceExtensionProperties" >>
                    \o C15_SwapchainQueries)
C15_Witness ==
    /\ q_pc = "checked"
    /\ C3_Complete
    /\ ~C3_ExtensionsPresent
    /\ q_device.formats # << >>
    /\ C15_Count("vkEnumerateDeviceExtensionProperties") = 1
    /\ ~C15_Queried("vkGetPhysicalDeviceSurfaceFormatsKHR")

(***************************************************************************)
(* C16: a failed new releases nothing                                      *)
(***************************************************************************)
\* the objects whose create call was made and was not the call that failed
C16_CreatedBeforeFailure ==
    { obj \in C13_Owned : C12_Pos(C13_CreateCall(obj)) < Len(calls) }
C16_NothingReleased ==
    pc = "Panicked" =>
        /\ \A k \in DOMAIN calls : ~IsDestroyCall(calls[k])
        /\ live = C16_CreatedBeforeFailure
        /\ Called("vkCreateSurfaceKHR") => "instance" \in live
        /\ Called("vkEnumeratePhysicalDevices") =>
               { "instance", "surface" } \subseteq live
        /\ Called("vkCreateDebugUtilsMessengerEXT") =>
               { "instance", "surface", "device" } \subseteq live

\* C16: when new has panicked, no destroy call was issued and every object
\* created before the failure is still alive; nothing happens after the
\* panic, so the instance and the surface are never released.
C16_NoRollback ==
    /\ [](C16_NothingReleased)
    /\ [][pc = "Panicked" =>
              (pc' = "Panicked" /\ live' = live /\ calls' = calls)]_vars
C16_Witness ==
    /\ pc = "Panicked"
    /\ Called("vkEnumeratePhysicalDevices")
    /\ Len(physical_devices) >= 1
    /\ live = { "instance", "surface" }

(***************************************************************************)
(* C19: destroy releases each created handle once                          *)
(***************************************************************************)
C19_Count(name) ==
    Cardinality({ k \in DOMAIN calls : calls[k][1] = name })
C19_AllObjects == { "instance", "surface", "device", "messenger" }
C19_EachReleasedOnce ==
    /\ pc = "Returned" =>
           /\ live = C13_Owned
           /\ enable_validation =>
                  (debug_utils_loader # None /\ debug_messenger # None)
    /\ pc = "Destroyed" =>
           /\ live = {}
           /\ \A obj \in C19_AllObjects :
                  /\ C19_Count(C13_CreateCall(obj)) <= 1
                  /\ C19_Count(C13_DestroyCall(obj))
                         = C19_Count(C13_CreateCall(obj))
           /\ "messenger" \in C13_Owned <=> enable_validation
    /\ pc = "Panicked" => \A k \in DOMAIN calls : ~IsDestroyCall(calls[k])

\* C19: a destroyed context has every handle new created (device,
\* messenger in a validation build, surface, instance) released by exactly
\* one destroy call and nothing left alive; the unwraps in destroy find a
\* loader and a messenger in every returned validation context; destroy
\* runs once: after it, no further call is made.
C19_DestroyOnceAndComplete ==
    /\ [](C19_EachReleasedOnce)
    /\ [][pc = "Destroyed" =>
              (pc' = "Destroyed" /\ calls' = calls /\ live' = live)]_vars
C19_Witness ==
    /\ pc = "Destroyed"
    /\ enable_validation
    /\ live = {}
    /\ \A obj \in C19_AllObjects : C19_Count(C13_DestroyCall(obj)) = 1

(***************************************************************************)
(* C20: the unwraps in create_logical_device                               *)
(***************************************************************************)
\* new has panicked in create_logical_device before the device-create call:
\* an unwrap of graphics_family or present_family found None
C20_UnwrapFailed ==
    /\ pc = "Panicked"
    /\ physical_device # None
    /\ ~Called("vkCreateDevice")

\* C20: the indices create_logical_device finds for the selected device
\* are complete, so neither unwrap fails on any path through new, and the
\* queues requested and fetched are those of the indices found.
C20_UnwrapNeverFails ==
    /\ ~C20_UnwrapFailed
    /\ physical_device # None =>
           /\ C4_Indices.graphics_family # None
           /\ C4_Indices.present_family # None
           /\ pc = "PhysicalDeviceSelected" \/ Called("vkCreateDevice")
    /\ graphics_queue # None =>
           /\ unwrap(graphics_queue)[1] = unwrap(C4_Indices.graphics_family)
           /\ unwrap(present_queue)[1] = unwrap(C4_Indices.present_family)
C20_Witness ==
    /\ pc = "LogicalDeviceReady"
    /\ C4_Indices.graphics_family = Some(1)
    /\ C4_Indices.present_family = Some(2)
    /\ graphics_queue = Some(<< 1, 0 >>)
    /\ present_queue = Some(<< 2, 0 >>)


(***************************************************************************)
(* SpecApp: the App of src/src/main.rs.                                    *)
(*                                                                         *)
(* main builds the App and loops: each iteration pumps the event loop,     *)
(* which hands any number of events to the handlers resumed and            *)
(* window_event, then leaves the loop if the pump reports Exit, and        *)
(* otherwise takes a frame step when one is due.  The clock is the         *)
(* environment's here: whether a frame is due is chosen at each            *)
(* iteration.  After the loop main calls cleanup and returns.              *)
(***************************************************************************)

WindowEvents == { "CloseRequested", "RedrawRequested", "Resized" }

ResumedOutcomes ==
    { "ok", "window_failed", "extensions_failed", "instance_failed" }

\* App::new: the fields of a fresh App.
InitApp ==
    /\ app_pc = "LoopHead"
    /\ app_window = None
    /\ app_instance = None
    /\ app_running = TRUE
    /\ app_exit = FALSE
    /\ app_events = << >>
    /\ app_calls = << >>
    /\ app_redraw = FALSE
    /\ app_live = { "entry" }
    /\ BootIdle
    /\ SuitIdle
    /\ CbIdle
    /\ PaceIdle

\* The calls create_instance of main.rs makes.
app_create_instance_calls ==
    << "enumerate_required_extensions", "vkCreateInstance" >>

\* The call whose unwrap / expect panics under each outcome.
failing_call(outcome) ==
    CASE outcome = "window_failed"     -> "create_window"
      [] outcome = "extensions_failed" -> "enumerate_required_extensions"
      [] outcome = "instance_failed"   -> "vkCreateInstance"
      [] OTHER                         -> "none"

\* The calls made before a panic stops the handler: everything up to and
\* including the failing call.
calls_until(cs, name) ==
    IF \E k \in 1..Len(cs) : cs[k] = name
    THEN SubSeq(cs, 1, CHOOSE k \in 1..Len(cs) :
                           cs[k] = name /\ \A j \in 1..(k - 1) : cs[j] # name)
    ELSE cs

\* The create calls resumed makes for an App with these two fields, when
\* every call succeeds: the window if there is none, then the instance if
\* there is none.
resumed_creates_unguarded(w, i) ==
    (IF w = None THEN << "create_window" >> ELSE << >>)
        \o app_create_instance_calls

resumed_creates(w, i) ==
    (IF w = None THEN << "create_window" >> ELSE << >>)
        \o (IF i = None THEN app_create_instance_calls ELSE << >>)

\* while app.running: enter the iteration, or fall out of the loop.
LoopHead ==
    /\ app_pc = "LoopHead"
    /\ app_pc' = IF app_running THEN "Pumping" ELSE "LoopExited"
    /\ UNCHANGED << app_window, app_instance, app_running, app_exit,
                    app_events, app_calls, app_redraw, app_live >>
    /\ UNCHANGED << bootVars, suitVars, cbVars, paceVars >>

\* ApplicationHandler::resumed.
Resumed ==
    /\ app_pc = "Pumping"
    /\ Len(app_events) < MaxEvents
    /\ \E outcome \in ResumedOutcomes :
         LET creates == resumed_creates(app_window, app_instance)
             made    == calls_until(creates, failing_call(outcome))
             done    == IF outcome = "ok" THEN made
                        ELSE SubSeq(made, 1, Len(made) - 1)
             has(cs, name) == \E k \in 1..Len(cs) : cs[k] = name
         IN  /\ outcome # "ok" => has(creates, failing_call(outcome))
             /\ app_events' = Append(app_events, "Resumed")
             /\ app_calls' = app_calls \o made
             /\ app_window' = IF has(done, "create_window")
                              THEN Some("window") ELSE app_window
             /\ app_instance' = IF has(done, "vkCreateInstance")
                                THEN Some("instance") ELSE app_instance
             /\ app_live' = app_live
                              \cup (IF has(done, "create_window")
                                    THEN { "window" } ELSE {})
                              \cup (IF has(done, "vkCreateInstance")
                                    THEN { "instance" } ELSE {})
             /\ app_running' = IF outcome = "ok" THEN TRUE ELSE app_running
             /\ app_pc' = IF outcome = "ok" THEN "Pumping" ELSE "Panicked"
    /\ UNCHANGED << app_exit, app_redraw >>
    /\ UNCHANGED << bootVars, suitVars, cbVars, paceVars >>

\* ApplicationHandler::window_event: only a window that exists gets events.
WindowEvent ==
    /\ app_pc = "Pumping"
    /\ Len(app_events) < MaxEvents
    /\ app_window # None
    /\ \E event \in WindowEvents :
         /\ app_events' = Append(app_events, event)
         /\ app_running' = IF event = "CloseRequested"
                           THEN FALSE ELSE app_running
         /\ app_exit' = IF event = "CloseRequested" THEN TRUE ELSE app_exit
         /\ app_redraw' = IF event = "RedrawRequested"
                          THEN FALSE ELSE app_redraw
    /\ UNCHANGED << app_pc, app_window, app_instance, app_calls, app_live >>
    /\ UNCHANGED << bootVars, suitVars, cbVars, paceVars >>

\* pump_app_events returns: PumpStatus::Exit once exit() was called, which
\* breaks out of the loop; otherwise the iteration goes on.
PumpReturn ==
    /\ app_pc = "Pumping"
    /\ app_pc' = IF app_exit THEN "LoopExited" ELSE "AfterPump"
    /\ UNCHANGED << app_window, app_instance, app_running, app_exit,
                    app_events, app_calls, app_redraw, app_live >>
    /\ UNCHANGED << bootVars, suitVars, cbVars, paceVars >>

\* The rest of the iteration: when a frame is due, tick (empty) and ask
\* the window, if any, for a redraw.
FrameStep ==
    /\ app_pc = "AfterPump"
    /\ \E due \in BOOLEAN :
         app_redraw' = IF due /\ app_window # None THEN TRUE ELSE app_redraw
    /\ app_pc' = "LoopHead"
    /\ UNCHANGED << app_window, app_instance, app_running, app_exit,
                    app_events, app_calls, app_live >>
    /\ UNCHANGED << bootVars, suitVars, cbVars, paceVars >>

\* The calls App::cleanup makes: its body is empty.
cleanup_calls(w, i) == << >>

\* app.cleanup(), then main returns and its locals are dropped: the window
\* closes with its Window value, the instance handle is a plain value whose
\* drop makes no driver call.
Cleanup ==
    /\ app_pc = "LoopExited"
    /\ app_calls' = (app_calls \o << "cleanup" >>)
                        \o cleanup_calls(app_window, app_instance)
    /\ LET cs == cleanup_calls(app_window, app_instance)
       IN  app_live' = (app_live \ UNION { Released(cs[k]) : k \in 1..Len(cs) })
                           \ { "window", "entry" }
    /\ app_pc' = "MainReturned"
    /\ UNCHANGED << app_window, app_instance, app_running, app_exit,
                    app_events, app_redraw >>
    /\ UNCHANGED << bootVars, suitVars, cbVars, paceVars >>

NextApp ==
    \/ LoopHead
    \/ Resumed
    \/ WindowEvent
    \/ PumpReturn
    \/ FrameStep
    \/ Cleanup

SpecApp == InitApp /\ [][NextApp]_vars

(***************************************************************************)
(* C17: window and instance are created at most once                       *)
(***************************************************************************)
C17_Count(name) ==
    Cardinality({ k \in 1..Len(app_calls) : app_calls[k] = name })

C17_Resumes ==
    Cardinality({ k \in 1..Len(app_events) : app_events[k] = "Resumed" })

C17_InstanceAfterWindow ==
    \A k \in 1..Len(app_calls) :
        app_calls[k] = "vkCreateInstance"
            => \E j \in 1..(k - 1) : app_calls[j] = "create_window"

C17_LaterResumeCreatesNothing ==
    C17_Resumes >= 1
        => /\ C17_Count("create_window")' = C17_Count("create_window")
           /\ C17_Count("vkCreateInstance")' = C17_Count("vkCreateInstance")

\* C17: over any sequence of resumed and window events at most one window
\* and at most one driver instance are created, the instance only after the
\* window was created (an App that holds an instance holds a window), and
\* once one resumed event has been handled no later step creates either.
C17_CreatedAtMostOnce ==
    /\ [](/\ C17_Count("create_window") <= 1
          /\ C17_Count("vkCreateInstance") <= 1
          /\ C17_InstanceAfterWindow
          /\ (app_instance # None => app_window # None))
    /\ [][C17_LaterResumeCreatesNothing]_vars

C17_Witness ==
    /\ C17_Resumes >= 2
    /\ C17_Count("create_window") = 1
    /\ C17_Count("vkCreateInstance") = 1
    /\ app_window # None
    /\ app_instance # None

(***************************************************************************)
(* C18: shutdown after CloseRequested                                      *)
(***************************************************************************)
C18_CloseHandled ==
    \E k \in 1..Len(app_events) : app_events[k] = "CloseRequested"

C18_Cleanups ==
    Cardinality({ k \in 1..Len(app_calls) : app_calls[k] = "cleanup" })

\* The part of the shutdown the loop keeps: after CloseRequested no further
\* iteration starts, and cleanup has run exactly once when main returns.
C18_LoopExitsAndCleanupRunsOnce ==
    /\ C18_CloseHandled
         => app_pc \in { "Pumping", "LoopExited", "MainReturned" }
    /\ C18_Cleanups <= 1
    /\ app_pc = "MainReturned" => C18_Cleanups = 1 /\ C18_CloseHandled

\* C18: once a CloseRequested event has been handled the loop takes no
\* further iteration and cleanup runs exactly once, and when main has
\* returned the instance created in resumed has been destroyed.
C18_ShutdownDestroysInstance ==
    /\ C18_LoopExitsAndCleanupRunsOnce
    /\ app_pc = "MainReturned" => "instance" \notin app_live

C18_Witness ==
    /\ app_pc = "MainReturned"
    /\ C18_CloseHandled
    /\ C18_Cleanups = 1
    /\ "instance" \in app_live

(***************************************************************************)
(* SpecPace: the frame pacing of main's loop (src/src/main.rs:114-145).    *)
(*                                                                         *)
(* Instants and durations are integers, in nanoseconds.  The clock is      *)
(* monotonic and the environment's: between two iterations and inside      *)
(* pump_app_events any of the delays of Delays may pass, whatever timeout  *)
(* the loop asked for.  The event handlers are those of SpecApp and are    *)
(* left out here; the pump either reports Exit, which ends the loop, or    *)
(* lets the iteration go on to its frame step.                             *)
(***************************************************************************)
target_fps == 120

\* Duration::from_secs_f64(1.0 / target_fps as f64), in nanoseconds
frame_dt == 1000000000 \div target_fps

\* the time that may pass between two readings of the clock
Delays ==
    { 0, 1, frame_dt - 1, frame_dt, 2 * frame_dt, 2 * frame_dt + 1,
      3 * frame_dt }

\* the clock at line 117, and what passes before line 118
PaceStarts == { 0, frame_dt }
PaceStartDelays == { 0, 1 }

\* Instant::saturating_duration_since
saturating_duration_since(later, earlier) ==
    IF later >= earlier THEN later - earlier ELSE 0

\* lines 140-143: the schedule advances by one interval, and starts again
\* from the clock when it has fallen more than one interval behind
next_frame_after_no_resync(now, next_frame) ==
    next_frame + frame_dt

next_frame_after(now, next_frame) ==
    IF now > (next_frame + frame_dt) + frame_dt
    THEN now + frame_dt
    ELSE next_frame + frame_dt

\* lines 117-118
InitPace ==
    /\ \E t0 \in PaceStarts, d \in PaceStartDelays :
         /\ p_next_frame = t0
         /\ p_last_tick = t0 + d
         /\ p_clock = t0 + d
    /\ p_pc = "LoopHead"
    /\ p_now = 0
    /\ p_timeout = 0
    /\ p_dt = None
    /\ p_branch = "none"
    /\ p_iter = 0
    /\ BootIdle
    /\ SuitIdle
    /\ CbIdle
    /\ AppIdle

\* lines 120-122: a new iteration reads the clock and computes the timeout
PaceLoopHead ==
    /\ p_pc = "LoopHead"
    /\ p_iter < MaxIterations
    /\ \E d \in Delays :
         /\ p_clock' = p_clock + d
         /\ p_now' = p_clock + d
         /\ p_timeout' = saturating_duration_since(p_next_frame, p_clock + d)
    /\ p_pc' = "Pumping"
    /\ UNCHANGED << p_next_frame, p_last_tick, p_dt, p_branch, p_iter >>
    /\ UNCHANGED << bootVars, suitVars, cbVars, appVars >>

\* lines 124-127: pump_app_events returns after some time; Exit breaks
PacePump ==
    /\ p_pc = "Pumping"
    /\ \E d \in Delays : p_clock' = p_clock + d
    /\ \E exit \in BOOLEAN :
         p_pc' = IF exit THEN "LoopExited" ELSE "AfterPump"
    /\ UNCHANGED << p_now, p_timeout, p_next_frame, p_last_tick, p_dt,
                    p_branch, p_iter >>
    /\ UNCHANGED << bootVars, suitVars, cbVars, appVars >>

\* lines 129-144: read the clock again and take the frame step if it is due
PaceFrame ==
    /\ p_pc = "AfterPump"
    /\ p_now' = p_clock
    /\ IF p_clock >= p_next_frame
       THEN /\ p_dt' = Some(saturating_duration_since(p_clock, p_last_tick))
            /\ p_last_tick' = p_clock
            /\ p_next_frame' = next_frame_after(p_clock, p_next_frame)
            /\ p_branch' = IF p_clock > (p_next_frame + frame_dt) + frame_dt
                           THEN "resynced" ELSE "advanced"
       ELSE /\ p_branch' = "skipped"
            /\ UNCHANGED << p_dt, p_last_tick, p_next_frame >>
    /\ p_iter' = p_iter + 1
    /\ p_pc' = "LoopHead"
    /\ UNCHANGED << p_clock, p_timeout >>
    /\ UNCHANGED << bootVars, suitVars, cbVars, appVars >>

NextPace ==
    \/ PaceLoopHead
    \/ PacePump
    \/ PaceFrame

SpecPace == InitPace /\ [][NextPace]_vars

(***************************************************************************)
(* C21: frame pacing                                                       *)
(***************************************************************************)
C21_Stepped == p_branch \in { "advanced", "resynced" }

\* a step of the model in which the loop finishes an iteration with a
\* frame step (tick and redraw request)
C21_FrameStepTaken ==
    /\ p_iter' = p_iter + 1
    /\ C21_Stepped'

\* C21: a frame step is taken only when now >= next_frame, and after every
\* frame step next_frame >= now - frame_dt (written without subtraction:
\* next_frame + frame_dt >= now), whatever delays passed between the
\* readings of the clock.
C21_ScheduleNeverLagsByMoreThanOneFrame ==
    /\ [][C21_FrameStepTaken
             => /\ p_now' >= p_next_frame
                /\ p_next_frame' + frame_dt >= p_now']_vars
    /\ []((p_pc = "LoopHead" /\ C21_Stepped)
             => p_next_frame + frame_dt >= p_now)

\* the last iteration took a frame step that found the schedule more than
\* one interval behind the clock and restarted it from the clock
C21_Witness ==
    /\ p_pc = "LoopHead"
    /\ p_iter = MaxIterations
    /\ p_branch = "resynced"
    /\ p_next_frame = p_now + frame_dt
    /\ p_now > 3 * frame_dt
    /\ is_some(p_dt)

=============================================================================
